---- MODULE Spec2Model ----
(***************************************************************************)
(* The CHIP-8 interpreter of gemulation/chip8: the emulator's run loop     *)
(* (emulator.go), the CPU's fetch/decode and timers (chip8/cpu.go), the    *)
(* instruction semantics (inst.go), the RAM loaders (ram.go) and the       *)
(* display memory (ram.go, Display).                                       *)
(*                                                                         *)
(* One state of the model is one state of the Emulator object between two  *)
(* steps of Emulator.Run; `at` is the position of Run.  A Go runtime panic *)
(* (index out of range) stops the process: at = "panic", with the fields   *)
(* as the statements executed before the faulting one left them.           *)
(*                                                                         *)
(* Register cells are uint16: inst.go converts to and from uint16 / byte   *)
(* wherever a register meets a byte (RND, ReadMemory, WriteMemory,         *)
(* StoreBCD) and assigns registers and timers to each other unconverted,   *)
(* so v, dt and st are 16-bit cells in the program inst.go belongs to.     *)
(***************************************************************************)
EXTENDS Integers, Sequences, FiniteSets

VARIABLES rom,     \* Emulator.rom.Data: the program image, a sequence of bytes
          ram,     \* RAM.data as the sequence of its bytes: data[a] is ram[a + 1]
          v,       \* CPU.v
          stack,   \* CPU.stack
          sp,      \* CPU.sp
          pc,      \* CPU.pc
          i,       \* CPU.i
          dt,      \* CPU.dt
          st,      \* CPU.st
          keys,    \* Emulator.keys
          memory,  \* Display.memory as a sequence: memory[c] is memory[c + 1]
          frame,   \* the cells of Display.memory as the last pass of Display.Update read them
          at       \* position of Emulator.Run

vars == <<rom, ram, v, stack, sp, pc, i, dt, st, keys, memory, frame, at>>

---------------------------------------------------------------------------
(* Program constants *)

ProgramLocation == 512
RamSize == 4096
RegSize == 16
StackSize == 16
KeyboardSize == 16
InstructionSize == 2
DisplayWidth == 64
DisplayHeight == 32
SpriteSize == 5

(* Widths of the Go integer types of the CPU's fields *)
Uint8 == 256
Uint16 == 65536

(* The hexadecimal font, 16 glyphs of 5 bytes *)
Font ==
  << 240, 144, 144, 144, 240,    32,  96,  32,  32, 112,
     240,  16, 240, 128, 240,   240,  16, 240,  16, 240,
     144, 144, 240,  16,  16,   240, 128, 240,  16, 240,
     240, 128, 240, 144, 240,   240,  16,  32,  64,  64,
     240, 144, 240, 144, 240,   240, 144, 240,  16, 240,
     240, 144, 240, 144, 144,   224, 144, 224, 144, 224,
     240, 128, 128, 128, 240,   224, 144, 144, 144, 224,
     240, 128, 240, 128, 240,   240, 128, 240, 128, 128 >>

---------------------------------------------------------------------------
(* Bit operations on unsigned words *)

Bit(a, k) == (a \div (2 ^ k)) % 2

BitAnd(a, b, w) == LET S[k \in 0..w] == IF k = w THEN 0
                           ELSE (Bit(a, k) * Bit(b, k)) * (2 ^ k) + S[k + 1]
                   IN  S[0]

BitOr(a, b, w) == LET S[k \in 0..w] == IF k = w THEN 0
                          ELSE (IF Bit(a, k) + Bit(b, k) > 0 THEN 2 ^ k ELSE 0) + S[k + 1]
                  IN  S[0]

BitXor(a, b, w) == LET S[k \in 0..w] == IF k = w THEN 0
                           ELSE ((Bit(a, k) + Bit(b, k)) % 2) * (2 ^ k) + S[k + 1]
                   IN  S[0]

---------------------------------------------------------------------------
(* Operand fields of an instruction word *)

\* A variant of OpX with a mask one bit too wide
OpXWide(val) == (val \div 256) % 32

OpX(val) == (val \div 256) % 16
OpY(val) == (val \div 16) % 16
OpN(val) == val % 16
OpKK(val) == val % 256
OpNNN(val) == val % 4096

---------------------------------------------------------------------------
(* Program images the emulator is run on *)

\* The bytes of a sequence of 16-bit instruction words, high byte first
WordBytes(words) == [k \in 1..(2 * Len(words)) |->
                       IF k % 2 = 1 THEN words[(k + 1) \div 2] \div 256
                                    ELSE words[k \div 2] % 256]

\* Byte values used as immediate operands
ByteSamples == {0, 1, 5, 128, 200, 255}

\* Pairs of byte values used as the operands of the 8xyN instructions
BytePairs == {<<0, 0>>, <<0, 1>>, <<1, 0>>, <<5, 5>>, <<3, 5>>, <<5, 3>>, <<255, 0>>,
              <<255, 1>>, <<254, 1>>, <<1, 255>>, <<255, 255>>, <<128, 128>>,
              <<127, 128>>, <<128, 127>>, <<200, 100>>, <<100, 200>>, <<129, 1>>,
              <<8, 0>>, <<136, 16>>, <<64, 64>>, <<15, 240>>, <<170, 85>>}

\* LD V0,5; ADD V0,3
EndToEndRom == <<\h60, \h05, \h70, \h03>>

\* The deepest nesting of calls in NestRom
MaxNest == 17

\* k nested CALLs, then k RETs: level j lives at 0x200 + 4j and holds
\* "CALL level j+1; RET" (level 0 holds "CALL level 1; halt"), the innermost
\* level k holds "RET".
NestRom(k) == WordBytes([j \in 1..(2 * k + 1) |->
                  IF j = 2 * k + 1 THEN \h00EE
                  ELSE IF j % 2 = 1 THEN \h2000 + ProgramLocation + 2 * (j + 1)
                  ELSE IF j = 2 THEN 0 ELSE \h00EE])

NestRoms == {NestRom(k) : k \in 0..MaxNest}

\* CALL 0x400 placed at 0x300 (reached by JP 0x300), RET at 0x400
CallAt300Rom == [k \in 1..514 |->
                   CASE k = 1 -> \h13     \* 0x200: JP 0x300
                     [] k = 2 -> \h00
                     [] k = 257 -> \h24   \* 0x300: CALL 0x400
                     [] k = 258 -> \h00
                     [] k = 513 -> \h00   \* 0x400: RET
                     [] k = 514 -> \hEE
                     [] OTHER -> 0]

\* A program image of L bytes: CLS first, 0xFF as the last byte, zero between
SizedRom(L) == [k \in 1..L |-> IF k = 2 THEN \hE0 ELSE IF k = L THEN \hFF ELSE 0]

SizedRoms == {SizedRom(L) : L \in {(RamSize - ProgramLocation) - 1,
                                   RamSize - ProgramLocation,
                                   (RamSize - ProgramLocation) + 1}}

\* LD Vx,a; LD DT,Vx (t = 0x15) or LD ST,Vx (t = 0x18); LD Vy,DT
TimerRom(x, y, a, t) == WordBytes(<<\h6000 + 256 * x + a, \hF000 + 256 * x + t,
                                    \hF007 + 256 * y>>)

\* Register pairs <<x, y>> of TimerRom
TimerRegs == {<<0, 1>>, <<3, 3>>}

TimerRoms == {TimerRom(p[1], p[2], a, t) : p \in TimerRegs, a \in ByteSamples, t \in {\h15, \h18}}

\* LD V2,255; ADD V2,a; LD DT,V2; LD ST,V2; three more instructions to tick on
WideTimerRoms == {WordBytes(<<\h62FF, \h7200 + a, \hF215, \hF218, \h6100, \h6100, \h6100>>) :
                     a \in {0, 1, 3}}

\* LD V0,a; LD Vx,K; LD V1,7
WaitKeyRoms == {WordBytes(<<\h6000 + a, \hF00A + 256 * x, \h6107>>) :
                   a \in {0, 5}, x \in {0, 2, 15}}

\* The 8xyN instructions, N = 0..7 and 0xE, and 8xy8, which the switch does not name
ArithOps == <<0, 1, 2, 3, 4, 5, 6, 7, 14, 8>>

\* Register pairs <<x, y>> used as operands
RegPairs == <<<<0, 1>>, <<1, 0>>, <<2, 2>>, <<3, 15>>, <<14, 7>>>>

\* For every pair <<x, y>> and every N: LD Vx,a; LD Vy,b; 8xyN
ArithRom(a, b) ==
  WordBytes([w \in 1..(3 * Len(RegPairs) * Len(ArithOps)) |->
     LET test == (w - 1) \div 3
         pair == RegPairs[(test \div Len(ArithOps)) + 1]
         op   == ArithOps[(test % Len(ArithOps)) + 1]
     IN  CASE (w - 1) % 3 = 0 -> \h6000 + 256 * pair[1] + a
           [] (w - 1) % 3 = 1 -> \h6000 + 256 * pair[2] + b
           [] OTHER -> \h8000 + 256 * pair[1] + 16 * pair[2] + op])

ArithRoms == {ArithRom(p[1], p[2]) : p \in BytePairs}

\* The sprite rows stored behind the program of DrawRom
SpriteRows == <<\hFF, \h81, \h00, \h3C>>

\* LD V0,x; LD V1,y; LD I,sprite; LD VF,1; DRW V0,V1,n twice; LD I,glyph 2;
\* DRW V0,V1,n; DRW V0,V1,5 (the glyph over the sprite); halt; the sprite rows
DrawRom(x, y, n) == WordBytes(<<
  \h6000 + x,       \* 200
  \h6100 + y,       \* 202
  \hA214,           \* 204: LD I,0x214
  \h6F01,           \* 206
  \hD010 + n,       \* 208
  \hD010 + n,       \* 20A
  \hA00A,           \* 20C
  \hD010 + n,       \* 20E
  \hD015,           \* 210
  \h0000,           \* 212
  SpriteRows[1] * 256 + SpriteRows[2],     \* 214
  SpriteRows[3] * 256 + SpriteRows[4] >>)

\* Coordinates <<x, y>> and heights n of DrawRom
DrawCoords == {<<60, 0>>, <<0, 0>>, <<5, 31>>, <<255, 255>>, <<62, 30>>}
DrawHeights == {0, 1, 4}

DrawRoms == {DrawRom(c[1], c[2], n) : c \in DrawCoords, n \in DrawHeights}

\* LD V0,a; LD V1,b; then words outside the patterns of the instruction set,
\* each 5xyN / 9xyN followed by a load that a skip would pass over
UnknownRom(a, b) == WordBytes(<<
  \h6000 + a,   \* 200
  \h6100 + b,   \* 202
  \h0123,       \* 204
  \h8018,       \* 206
  \hE011,       \* 208
  \hF0FF,       \* 20A
  \h5011,       \* 20C
  \h6207,       \* 20E: LD V2,7
  \h9012,       \* 210
  \h6308,       \* 212: LD V3,8
  \h0000 >>)

UnknownRoms == {UnknownRom(5, 5), UnknownRom(3, 5)}

\* SKP VF; SKNP VF; LD VF,1; ADD VF,VF: the largest register and key index
MaxIndexRom == WordBytes(<<\hEF9E, \hEFA1, \h6F01, \h8FF4, \h0000>>)

\* One program through the remaining instruction types
TourRom == WordBytes(<<
  \h6005,   \* 200: LD V0,5
  \h3005,   \* 202: SE V0,5      skips
  \h6101,   \* 204: (skipped)
  \h4005,   \* 206: SNE V0,5
  \h5010,   \* 208: SE V0,V1
  \h9010,   \* 20A: SNE V0,V1    skips
  \h6101,   \* 20C: (skipped)
  \hA00A,   \* 20E: LD I,0x00A   the glyph of 2
  \hD015,   \* 210: DRW V0,V1,5
  \hD015,   \* 212: DRW V0,V1,5
  \hE09E,   \* 214: SKP V0
  \hE0A1,   \* 216: SKNP V0      skips
  \h6101,   \* 218: (skipped)
  \hF01E,   \* 21A: ADD I,V0
  \hF029,   \* 21C: LD F,V0
  \hA300,   \* 21E: LD I,0x300
  \hF033,   \* 220: LD B,V0
  \hF155,   \* 222: LD [I],V1
  \hF165,   \* 224: LD V1,[I]
  \hC002,   \* 226: RND V0,2
  \hB22C,   \* 228: JP V0,0x22C
  \h0000,   \* 22A
  \h1FFF,   \* 22C: JP 0xFFF     the next read is outside data
  \h0000    \* 22E
  >>)

\* JP nnn, followed by a zero word
JumpTargets == {\h100, \h203, \hFFE, \hFFF}
JumpRoms == {WordBytes(<<\h1000 + nnn, \h0000, \h0000>>) : nnn \in JumpTargets}

\* LD V0,7; LD V1,9; LD I,0xFFE; an instruction that indexes data by I;
\* ADD I,V0; LD B,V0
IndexOps == {\hD013, \hF033, \hF255, \hF265, \hF155}
IndexRom(op) == WordBytes(<<\h6007, \h6109, \hAFFE, op, \hF01E, \hF033, \h0000>>)
IndexRoms == {IndexRom(op) : op \in IndexOps}

\* LD Vx,a; SKP Vx; LD V1,1; SKNP Vx; LD V2,1: the register number and the
\* value it holds differ, or agree
KeyOperands == {<<0, 5>>, <<5, 0>>, <<0, 0>>}
KeyRom(x, a) == WordBytes(<<\h6000 + x * 256 + a, \hE09E + x * 256, \h6101,
                            \hE0A1 + x * 256, \h6201, \h0000>>)
KeyRoms == {KeyRom(xa[1], xa[2]) : xa \in KeyOperands}

\* Timers, I and the stack are set, a glyph is drawn and the display cleared
ClearRom == WordBytes(<<
  \h6005,   \* 200: LD V0,5
  \h6309,   \* 202: LD V3,9
  \hF315,   \* 204: LD DT,V3
  \hF318,   \* 206: LD ST,V3
  \hA00A,   \* 208: LD I,0x00A
  \h2210,   \* 20A: CALL 0x210
  \h0000,   \* 20C
  \h0000,   \* 20E
  \hD035,   \* 210: DRW V0,V3,5
  \h00E0,   \* 212: CLS
  \h00EE    \* 214: RET
  >>)

\* LD V0,a; LD F,V0
SpriteDigits == {0, 9, 15, 16, 255}
SpriteRom(a) == WordBytes(<<\h6000 + a, \hF029, \h0000>>)
SpriteRoms == {SpriteRom(a) : a \in SpriteDigits}

\* LD V4,a; LD I,0x300; LD B,V4
BcdValues == {0, 9, 10, 99, 100, 123, 200, 255}
BcdRom(a) == WordBytes(<<\h6400 + a, \hA300, \hF433, \h0000>>)
BcdRoms == {BcdRom(a) : a \in BcdValues}

\* V0..V3 are loaded and V0..Vx stored at 0x300, V0..V3 are overwritten and
\* V0..Vx loaded back
RoundTripValues == <<7, 200, 255, 99>>
RoundTripClobber == <<\h11, \h22, \h33, \h44>>
RoundTripXs == {0, 2, 15}
RoundTripRom(x) == WordBytes(<<
  \h6000 + RoundTripValues[1],    \* 200: LD V0,7
  \h6100 + RoundTripValues[2],    \* 202: LD V1,200
  \h6200 + RoundTripValues[3],    \* 204: LD V2,255
  \h6300 + RoundTripValues[4],    \* 206: LD V3,99
  \hA300,                         \* 208: LD I,0x300
  \hF055 + x * 256,               \* 20A: LD [I],Vx
  \h6000 + RoundTripClobber[1],   \* 20C: LD V0,0x11
  \h6100 + RoundTripClobber[2],   \* 20E: LD V1,0x22
  \h6200 + RoundTripClobber[3],   \* 210: LD V2,0x33
  \h6300 + RoundTripClobber[4],   \* 212: LD V3,0x44
  \hF065 + x * 256,               \* 214: LD Vx,[I]
  \h0000                          \* 216
  >>)
RoundTripRoms == {RoundTripRom(x) : x \in RoundTripXs}

\* RND V3,kk
RndMasks == {\hFF, \h0F, \h00}
RndRom(kk) == WordBytes(<<\hC300 + kk, \h0000>>)
RndRoms == {RndRom(kk) : kk \in RndMasks}

\* LD V0,8; LD V1,4; LD I,0x20C; DRW V0,V1,3; CLS; halt; the three sprite rows
RenderRom == WordBytes(<<\h6008, \h6104, \hA20C, \hD013, \h00E0, \h0000, \hE0A0, \hE000>>)
RenderRoms == {RenderRom}

\* LD I,0xFFE and an instruction that reads data at I, I + 1, I + 2
StraightRoms == {WordBytes(<<\hAFFE, op, \h0000>>) : op \in {\hD013, \hF265}}

Roms == {EndToEndRom, CallAt300Rom, TourRom, MaxIndexRom, ClearRom} \cup NestRoms \cup SizedRoms \cup TimerRoms
          \cup WideTimerRoms \cup WaitKeyRoms \cup ArithRoms \cup DrawRoms
          \cup UnknownRoms \cup JumpRoms \cup IndexRoms \cup KeyRoms \cup SpriteRoms
          \cup BcdRoms \cup RoundTripRoms \cup RndRoms \cup RenderRoms
          \cup StraightRoms

---------------------------------------------------------------------------
(* Construction: NewEmulator, NewDisplay, NewRAM, NewCPU *)

\* An array of n zero bytes
RECURSIVE Zeros(_)
Zeros(n) == IF n = 0 THEN <<>>
            ELSE IF n % 2 = 1 THEN <<0>> \o Zeros(n - 1)
            ELSE LET half == Zeros(n \div 2) IN half \o half

\* The byte of an array at a (zero-based) index, and the array with it replaced
Byte(data, addr) == data[addr + 1]
SetByte(data, addr, b) == [data EXCEPT ![addr + 1] = b]

\* NewRAM: data is all zero
NewRAM == Zeros(RamSize)

\* Display.Clear, and the memory of NewDisplay
ClearedMemory == Zeros(DisplayWidth * DisplayHeight)

Init == /\ rom \in Roms
        /\ ram = NewRAM
        /\ v = [r \in 0..(RegSize - 1) |-> 0]
        /\ stack = [s \in 0..(StackSize - 1) |-> 0]
        /\ sp = 0
        /\ pc = ProgramLocation
        /\ i = 0
        /\ dt = 0
        /\ st = 0
        /\ keys = [k \in 0..(KeyboardSize - 1) |-> FALSE]
        /\ memory = ClearedMemory
        /\ frame = ClearedMemory
        /\ at = "init"

---------------------------------------------------------------------------
(* Emulator.Run, before the loop *)

\* display.Init(); display.Clear()
DisplayInit == /\ at = "init"
               /\ memory' = ClearedMemory
               /\ at' = "loadrom"
               /\ UNCHANGED <<rom, frame, ram, v, stack, sp, pc, i, dt, st, keys>>

\* A variant of LoadRomData that stores the bytes from address 0 on
LoadRomAtZero(data, bytes) ==
  LET stored == IF ProgramLocation + Len(bytes) > RamSize
                THEN RamSize - ProgramLocation ELSE Len(bytes)
  IN  SubSeq(bytes, 1, stored) \o SubSeq(data, stored + 1, RamSize)

\* RAM.LoadRom: the bytes are stored one by one from ProgramLocation on; the
\* store of the first byte that falls outside data panics, after the bytes
\* before it have been stored.
LoadRomData(data, bytes) ==
  LET stored == IF ProgramLocation + Len(bytes) > RamSize
                THEN RamSize - ProgramLocation ELSE Len(bytes)
  IN  SubSeq(data, 1, ProgramLocation) \o SubSeq(bytes, 1, stored)
        \o SubSeq(data, ProgramLocation + stored + 1, RamSize)

LoadRomPanics(bytes) == ProgramLocation + Len(bytes) > RamSize

LoadRom == /\ at = "loadrom"
           /\ ram' = LoadRomData(ram, rom)
           /\ at' = IF LoadRomPanics(rom) THEN "panic" ELSE "loadfont"
           /\ UNCHANGED <<rom, frame, v, stack, sp, pc, i, dt, st, keys, memory>>

\* RAM.LoadFont
LoadFontData(data, font) == font \o SubSeq(data, Len(font) + 1, RamSize)

LoadFont == /\ at = "loadfont"
            /\ ram' = LoadFontData(ram, Font)
            /\ at' = "fetch"
            /\ UNCHANGED <<rom, frame, v, stack, sp, pc, i, dt, st, keys, memory>>

---------------------------------------------------------------------------
(* CPU.ReadInstruction *)

\* A variant of ReadWord that takes the first byte as the low byte
ReadWordLowFirst(data, addr) == Byte(data, addr) + Byte(data, addr + 1) * 256

\* The two bytes at addr, the first one the high byte
ReadWord(data, addr) == Byte(data, addr) * 256 + Byte(data, addr + 1)

\* The instruction type the switch selects for a nonzero word
Decode(val) ==
  LET class == (val \div 4096) % 16
      low4  == val % 16
      low8  == val % 256
  IN CASE class = 0 -> (IF val = \h00E0 THEN "Clear"
                        ELSE IF val = \h00EE THEN "Return" ELSE "BaseInstruction")
       [] class = 1 -> "Jump"
       [] class = 2 -> "Call"
       [] class = 3 -> "SkipX"
       [] class = 4 -> "SkipNotX"
       [] class = 5 -> "SkipXY"
       [] class = 6 -> "LoadX"
       [] class = 7 -> "AddX"
       [] class = 8 -> (CASE low4 = 0 -> "LoadXY"
                          [] low4 = 1 -> "OR"
                          [] low4 = 2 -> "AND"
                          [] low4 = 3 -> "XOR"
                          [] low4 = 4 -> "AddXY"
                          [] low4 = 5 -> "SubXY"
                          [] low4 = 6 -> "SHR"
                          [] low4 = 7 -> "SubN"
                          [] low4 = \hE -> "SHL"
                          [] OTHER -> "BaseInstruction")
       [] class = 9 -> "SkipNotXY"
       [] class = 10 -> "LoadI"
       [] class = 11 -> "JumpV0"
       [] class = 12 -> "RND"
       [] class = 13 -> "Draw"
       [] class = 14 -> (CASE low8 = \h9E -> "SkipKey"
                           [] low8 = \hA1 -> "SkipNotKey"
                           [] OTHER -> "BaseInstruction")
       [] class = 15 -> (CASE low8 = \h07 -> "GetDelayTimer"
                           [] low8 = \h0A -> "WaitKey"
                           [] low8 = \h15 -> "SetDelayTimer"
                           [] low8 = \h18 -> "SetSoundTimer"
                           [] low8 = \h1E -> "AddI"
                           [] low8 = \h29 -> "LoadSprite"
                           [] low8 = \h33 -> "StoreBCD"
                           [] low8 = \h55 -> "WriteMemory"
                           [] low8 = \h65 -> "ReadMemory"
                           [] OTHER -> "BaseInstruction")

\* The loop is about to read an instruction and both bytes are inside data
CanRead == at = "fetch" /\ pc + 1 < RamSize

\* The word ReadInstruction reads
Val == ReadWord(ram, pc)

\* ReadInstruction returns an instruction of the given type
Fetched(type) == CanRead /\ Val # 0 /\ Decode(Val) = type

\* The program counter once ReadInstruction has advanced it
NextPC == (pc + InstructionSize) % Uint16

\* A read outside data panics
ReadPanic == /\ at = "fetch"
             /\ ~(pc + 1 < RamSize)
             /\ at' = "panic"
             /\ UNCHANGED <<rom, frame, ram, v, stack, sp, pc, i, dt, st, keys, memory>>

\* A variant of Halt in which pc is advanced before the word is tested
HaltAdvanced == /\ CanRead
                /\ Val = 0
                /\ pc' = NextPC
                /\ at' = "halted"
                /\ UNCHANGED <<rom, frame, ram, v, stack, sp, i, dt, st, keys, memory>>

\* The zero word: ReadInstruction returns nil and the loop breaks
Halt == /\ CanRead
        /\ Val = 0
        /\ at' = "halted"
        /\ UNCHANGED <<rom, frame, ram, v, stack, sp, pc, i, dt, st, keys, memory>>

---------------------------------------------------------------------------
(* The goroutine of Display.Init that calls Display.Update in a loop.  It  *)
(* reads Display.memory with no synchronisation with the loop of Run: a    *)
(* pass reads the cells as they are between two instructions (Update), or  *)
(* as they are between two writes of the Draw or Clear that runs at the    *)
(* same time (RenderDuring).  The passes are explored for RenderRoms.      *)

\* The cells after Display.Clear has zeroed the first r rows of the display
ClearedRows(cells, r) ==
  Zeros(r * DisplayWidth) \o SubSeq(cells, r * DisplayWidth + 1, DisplayWidth * DisplayHeight)

\* While an instruction writes Display.memory either no pass reads it, or a
\* pass reads one of the given intermediate contents
RenderDuring(partials) ==
  frame' \in {frame} \cup (IF rom \in RenderRoms THEN partials ELSE {})

\* A pass of Display.Update while the loop of Run is between two instructions
Update == /\ rom \in RenderRoms
          /\ at \in {"loadrom", "loadfont", "fetch", "timers"}
          /\ frame # memory
          /\ frame' = memory
          /\ UNCHANGED <<rom, ram, v, stack, sp, pc, i, dt, st, keys, memory, at>>

---------------------------------------------------------------------------
(* Instruction.Execute, one action per instruction type.  Each action is   *)
(* ReadInstruction returning that type followed by its Execute.            *)

\* An instruction that only writes registers and the program counter
RegisterStep(type, regs, newpc) ==
  /\ Fetched(type)
  /\ v' = regs
  /\ pc' = newpc
  /\ at' = "timers"
  /\ UNCHANGED <<rom, frame, ram, stack, sp, i, dt, st, keys, memory>>

\* An instruction that only writes the program counter
JumpStep(type, newpc) == RegisterStep(type, v, newpc)

\* The program counter after a conditional skip
SkipPC(cond) == IF cond THEN (NextPC + InstructionSize) % Uint16 ELSE NextPC

\* BaseInstruction.Execute: a word no case of the switch names
BaseInstruction == JumpStep("BaseInstruction", NextPC)

\* A variant of Clear that wipes the window and leaves the display memory
ClearWindowOnly == /\ Fetched("Clear")
                   /\ pc' = NextPC
                   /\ at' = "timers"
                   /\ UNCHANGED <<rom, frame, ram, v, stack, sp, i, dt, st, keys, memory>>

\* 00E0 - CLS
Clear == /\ Fetched("Clear")
         /\ memory' = ClearedMemory
         /\ RenderDuring({ClearedRows(memory, r) : r \in 0..DisplayHeight})
         /\ pc' = NextPC
         /\ at' = "timers"
         /\ UNCHANGED <<rom, ram, v, stack, sp, i, dt, st, keys>>

\* 00EE - RET: pc = stack[sp]; sp--.  The read of stack[sp] panics when sp is
\* outside the stack.
Return == /\ Fetched("Return")
          /\ IF sp < StackSize
             THEN /\ pc' = stack[sp]
                  /\ sp' = (sp - 1) % Uint8
                  /\ at' = "timers"
             ELSE /\ pc' = NextPC
                  /\ sp' = sp
                  /\ at' = "panic"
          /\ UNCHANGED <<rom, frame, ram, v, stack, i, dt, st, keys, memory>>

\* 1nnn - JP addr
Jump == JumpStep("Jump", OpNNN(Val))

\* 2nnn - CALL addr: sp++; stack[sp] = pc; pc = nnn.  The store to stack[sp]
\* panics when the incremented sp is outside the stack.
CallSP(s) == (s + 1) % Uint8

Call == /\ Fetched("Call")
        /\ sp' = CallSP(sp)
        /\ IF CallSP(sp) < StackSize
           THEN /\ stack' = [stack EXCEPT ![CallSP(sp)] = NextPC]
                /\ pc' = OpNNN(Val)
                /\ at' = "timers"
           ELSE /\ stack' = stack
                /\ pc' = NextPC
                /\ at' = "panic"
        /\ UNCHANGED <<rom, frame, ram, v, i, dt, st, keys, memory>>

\* 3xkk - SE Vx, byte
SkipX == JumpStep("SkipX", SkipPC(v[OpX(Val)] = OpKK(Val)))

\* 4xkk - SNE Vx, byte
SkipNotX == JumpStep("SkipNotX", SkipPC(v[OpX(Val)] # OpKK(Val)))

\* 5xy0 - SE Vx, Vy
SkipXY == JumpStep("SkipXY", SkipPC(v[OpX(Val)] = v[OpY(Val)]))

\* 6xkk - LD Vx, byte
LoadX == RegisterStep("LoadX", [v EXCEPT ![OpX(Val)] = OpKK(Val)], NextPC)

\* 7xkk - ADD Vx, byte: v[x] += kk
AddXRegs(regs, x, kk) == [regs EXCEPT ![x] = (regs[x] + kk) % Uint16]

AddX == RegisterStep("AddX", AddXRegs(v, OpX(Val), OpKK(Val)), NextPC)

\* 8xy0 - LD Vx, Vy
LoadXY == RegisterStep("LoadXY", [v EXCEPT ![OpX(Val)] = v[OpY(Val)]], NextPC)

\* 8xy1 - OR Vx, Vy
OR == RegisterStep("OR", [v EXCEPT ![OpX(Val)] = BitOr(v[OpX(Val)], v[OpY(Val)], 16)], NextPC)

\* 8xy2 - AND Vx, Vy
AND == RegisterStep("AND", [v EXCEPT ![OpX(Val)] = BitAnd(v[OpX(Val)], v[OpY(Val)], 16)], NextPC)

\* 8xy3 - XOR Vx, Vy
XOR == RegisterStep("XOR", [v EXCEPT ![OpX(Val)] = BitXor(v[OpX(Val)], v[OpY(Val)], 16)], NextPC)

\* A variant of AddXYCarry that compares with >=
AddXYCarryInclusive(xy) == IF xy >= 255 THEN 1 ELSE 0

\* 8xy4 - ADD Vx, Vy: xy := v[x] + v[y]; v[0xF] = 0; if xy > 0xFF { v[0xF] = 1 };
\* v[x] = xy & 0xFF
AddXYCarry(xy) == IF xy > 255 THEN 1 ELSE 0

AddXYRegs(regs, x, y) ==
  LET xy == (regs[x] + regs[y]) % Uint16
      flagged == [regs EXCEPT ![15] = AddXYCarry(xy)]
  IN  [flagged EXCEPT ![x] = BitAnd(xy, 255, 16)]

AddXY == RegisterStep("AddXY", AddXYRegs(v, OpX(Val), OpY(Val)), NextPC)

\* 8xy5 - SUB Vx, Vy: xy := v[x] - v[y]; v[0xF] = 0; if v[x] > v[y] { v[0xF] = 1 };
\* v[x] = xy.  The comparison reads the registers after v[0xF] was cleared.
SubXYRegs(regs, x, y) ==
  LET xy == (regs[x] - regs[y]) % Uint16
      cleared == [regs EXCEPT ![15] = 0]
      flagged == IF cleared[x] > cleared[y] THEN [cleared EXCEPT ![15] = 1] ELSE cleared
  IN  [flagged EXCEPT ![x] = xy]

SubXY == RegisterStep("SubXY", SubXYRegs(v, OpX(Val), OpY(Val)), NextPC)

\* A variant of SHRRegs that takes the flag from the register after the shift
SHRRegsFlagAfter(regs, x) ==
  LET shifted == [regs EXCEPT ![x] = regs[x] \div 2]
  IN  [shifted EXCEPT ![15] = IF x # 15 /\ shifted[x] % 2 = 1 THEN 1 ELSE 0]

\* 8xy6 - SHR Vx: v[0xF] = 0; if v[x]&1 == 1 { v[0xF] = 1 }; v[x] /= 2
SHRRegs(regs, x) ==
  LET cleared == [regs EXCEPT ![15] = 0]
      flagged == IF cleared[x] % 2 = 1 THEN [cleared EXCEPT ![15] = 1] ELSE cleared
  IN  [flagged EXCEPT ![x] = flagged[x] \div 2]

SHR == RegisterStep("SHR", SHRRegs(v, OpX(Val)), NextPC)

\* 8xy7 - SUBN Vx, Vy: yx := v[y] - v[x]; v[0xF] = 0; if v[y] > v[x] { v[0xF] = 1 };
\* v[x] = yx
SubNRegs(regs, x, y) ==
  LET yx == (regs[y] - regs[x]) % Uint16
      cleared == [regs EXCEPT ![15] = 0]
      flagged == IF cleared[y] > cleared[x] THEN [cleared EXCEPT ![15] = 1] ELSE cleared
  IN  [flagged EXCEPT ![x] = yx]

SubN == RegisterStep("SubN", SubNRegs(v, OpX(Val), OpY(Val)), NextPC)

\* 8xyE - SHL Vx: v[0xF] = 0; if (v[x]>>3)&1 == 1 { v[0xF] = 1 }; v[x] *= 2
SHLRegs(regs, x) ==
  LET cleared == [regs EXCEPT ![15] = 0]
      flagged == IF Bit(cleared[x], 3) = 1 THEN [cleared EXCEPT ![15] = 1] ELSE cleared
  IN  [flagged EXCEPT ![x] = (flagged[x] * 2) % Uint16]

SHL == RegisterStep("SHL", SHLRegs(v, OpX(Val)), NextPC)

\* 9xy0 - SNE Vx, Vy
SkipNotXY == JumpStep("SkipNotXY", SkipPC(v[OpX(Val)] # v[OpY(Val)]))

\* Annn - LD I, addr
LoadI == /\ Fetched("LoadI")
         /\ i' = OpNNN(Val)
         /\ pc' = NextPC
         /\ at' = "timers"
         /\ UNCHANGED <<rom, frame, ram, v, stack, sp, dt, st, keys, memory>>

\* Bnnn - JP V0, addr
JumpV0 == JumpStep("JumpV0", (OpNNN(Val) + v[0]) % Uint16)

\* Cxkk - RND Vx, byte: v[x] = uint16(rand.Intn(255)) & kk
RandomBytes == 0..254

RND == \E r \in RandomBytes :
          RegisterStep("RND", [v EXCEPT ![OpX(Val)] = BitAnd(r, OpKK(Val), 16)], NextPC)

\* The number of consecutive accesses data[base], data[base+1], ... (uint16
\* sums) among the first count that are inside data: the access after them
\* panics.
AccessesBeforePanic(base, count) ==
  LET bad == {k \in 0..(count - 1) : (base + k) % Uint16 >= RamSize}
  IN  IF bad = {} THEN count ELSE CHOOSE k \in bad : \A j \in bad : k <= j

\* A variant of DrawIndex that does not wrap the column inside its row
DrawIndexSpilled(x, y, xline, yline) ==
  ((((x % DisplayWidth) + xline) % Uint16)
     + ((((y + yline) % Uint16) % DisplayHeight) * 64)) % (DisplayWidth * DisplayHeight)

\* index := x + (y * 64), with x := (x + xline) % DisplayWidth and
\* y := (y + yline) % DisplayHeight in uint16
DrawIndex(x, y, xline, yline) ==
  (((x + xline) % Uint16) % DisplayWidth) + ((((y + yline) % Uint16) % DisplayHeight) * 64)

\* A variant of DrawPixel that sets the cell
DrawPixelSet(cell) == 1

\* memory[index] ^= 1
DrawPixel(cell) == BitXor(cell, 1, 8)

\* A variant of DrawCollision that never raises the flag
DrawCollisionKept(cell, flag) == flag

\* if memory[index] == 1 { v[0xF] = 1 }
DrawCollision(cell, flag) == IF cell = 1 THEN 1 ELSE flag

\* Dxyn - DRW Vx, Vy, nibble.  DrawFrom is the two nested loops from bit
\* number step on (yline = step / 8, xline = step % 8), over the rows read
\* before a read outside data panics.
RECURSIVE DrawFrom(_, _, _, _, _, _, _, _)
DrawFrom(cells, flag, data, base, x, y, rows, step) ==
  IF step >= 8 * rows THEN [memory |-> cells, vf |-> flag]
  ELSE LET yline == step \div 8
           xline == step % 8
           pixel == Byte(data, (base + yline) % Uint16)
           index == DrawIndex(x, y, xline, yline)
       IN  IF Bit(pixel, 7 - xline) # 0
           THEN DrawFrom(SetByte(cells, index, DrawPixel(Byte(cells, index))),
                         DrawCollision(Byte(cells, index), flag),
                         data, base, x, y, rows, step + 1)
           ELSE DrawFrom(cells, flag, data, base, x, y, rows, step + 1)

Draw == /\ Fetched("Draw")
        /\ LET height == OpN(Val)
               rows == AccessesBeforePanic(i, height)
               drawn == DrawFrom(memory, 0, ram, i, v[OpX(Val)], v[OpY(Val)], rows, 0)
           IN  /\ memory' = drawn.memory
               /\ RenderDuring({DrawFrom(memory, 0, ram, i, v[OpX(Val)], v[OpY(Val)], r, 0).memory :
                                  r \in 0..rows})
               /\ v' = [v EXCEPT ![15] = drawn.vf]
               /\ at' = IF rows < height THEN "panic" ELSE "timers"
        /\ pc' = NextPC
        /\ UNCHANGED <<rom, ram, stack, sp, i, dt, st, keys>>

\* Ex9E - SKP Vx: if keys[x]
SkipKey == JumpStep("SkipKey", SkipPC(keys[OpX(Val)]))

\* ExA1 - SKNP Vx: if !keys[x]
SkipNotKey == JumpStep("SkipNotKey", SkipPC(~keys[OpX(Val)]))

\* Fx07 - LD Vx, DT
GetDelayTimer == RegisterStep("GetDelayTimer", [v EXCEPT ![OpX(Val)] = dt], NextPC)

\* Fx0A - LD Vx, K: the body of Execute is empty
WaitKey == JumpStep("WaitKey", NextPC)

\* Fx15 - LD DT, Vx
SetDelayTimer == /\ Fetched("SetDelayTimer")
                 /\ dt' = v[OpX(Val)]
                 /\ pc' = NextPC
                 /\ at' = "timers"
                 /\ UNCHANGED <<rom, frame, ram, v, stack, sp, i, st, keys, memory>>

\* Fx18 - LD ST, Vx
SetSoundTimer == /\ Fetched("SetSoundTimer")
                 /\ st' = v[OpX(Val)]
                 /\ pc' = NextPC
                 /\ at' = "timers"
                 /\ UNCHANGED <<rom, frame, ram, v, stack, sp, i, dt, keys, memory>>

\* Fx1E - ADD I, Vx: i += v[x]
AddI == /\ Fetched("AddI")
        /\ i' = (i + v[OpX(Val)]) % Uint16
        /\ pc' = NextPC
        /\ at' = "timers"
        /\ UNCHANGED <<rom, frame, ram, v, stack, sp, dt, st, keys, memory>>

\* Fx29 - LD F, Vx: i = v[x] * SpriteSize
LoadSprite == /\ Fetched("LoadSprite")
              /\ i' = (v[OpX(Val)] * SpriteSize) % Uint16
              /\ pc' = NextPC
              /\ at' = "timers"
              /\ UNCHANGED <<rom, frame, ram, v, stack, sp, dt, st, keys, memory>>

\* data after bytes[k] was stored at base + k (a uint16 sum) for k = from, ..., count - 1
RECURSIVE Stored(_, _, _, _, _)
Stored(data, base, from, count, bytes) ==
  IF from >= count THEN data
  ELSE Stored(SetByte(data, (base + from) % Uint16, bytes[from]), base, from + 1, count, bytes)

\* A variant of BCD in which the tens are not reduced modulo 10
BCDTensWhole(vx) == [k \in 0..2 |-> CASE k = 0 -> (vx \div 100) % Uint8
                                      [] k = 1 -> (vx \div 10) % Uint8
                                      [] k = 2 -> (vx % 100) % 10]

\* Fx33 - LD B, Vx
BCD(vx) == [k \in 0..2 |-> CASE k = 0 -> (vx \div 100) % Uint8
                             [] k = 1 -> (vx \div 10) % 10
                             [] k = 2 -> (vx % 100) % 10]

StoreBCD == /\ Fetched("StoreBCD")
            /\ LET done == AccessesBeforePanic(i, 3)
               IN  /\ ram' = Stored(ram, i, 0, done, BCD(v[OpX(Val)]))
                   /\ at' = IF done < 3 THEN "panic" ELSE "timers"
            /\ pc' = NextPC
            /\ UNCHANGED <<rom, frame, v, stack, sp, i, dt, st, keys, memory>>

\* A variant of WriteMemory whose loop stops before Vx
WriteMemoryExclusive ==
  /\ Fetched("WriteMemory")
  /\ LET count == OpX(Val)
         done == AccessesBeforePanic(i, count)
     IN  /\ ram' = Stored(ram, i, 0, done, [k \in 0..(RegSize - 1) |-> v[k] % Uint8])
         /\ at' = IF done < count THEN "panic" ELSE "timers"
  /\ pc' = NextPC
  /\ UNCHANGED <<rom, frame, v, stack, sp, i, dt, st, keys, memory>>

\* Fx55 - LD [I], Vx: data[i+k] = byte(v[k]) for k = 0..x
WriteMemory == /\ Fetched("WriteMemory")
               /\ LET count == OpX(Val) + 1
                      done == AccessesBeforePanic(i, count)
                  IN  /\ ram' = Stored(ram, i, 0, done, [k \in 0..(RegSize - 1) |-> v[k] % Uint8])
                      /\ at' = IF done < count THEN "panic" ELSE "timers"
               /\ pc' = NextPC
               /\ UNCHANGED <<rom, frame, v, stack, sp, i, dt, st, keys, memory>>

\* Fx65 - LD Vx, [I]: v[k] = uint16(data[i+k]) for k = 0..x
ReadMemory == /\ Fetched("ReadMemory")
              /\ LET count == OpX(Val) + 1
                     done == AccessesBeforePanic(i, count)
                 IN  /\ v' = [k \in 0..(RegSize - 1) |->
                                IF k < done THEN Byte(ram, (i + k) % Uint16) ELSE v[k]]
                     /\ at' = IF done < count THEN "panic" ELSE "timers"
              /\ pc' = NextPC
              /\ UNCHANGED <<rom, frame, ram, stack, sp, i, dt, st, keys, memory>>

---------------------------------------------------------------------------
(* The keypad.  No code of the emulator writes Emulator.keys: the input   *)
(* collaborator that does is described by the interface set_key(index,    *)
(* pressed).  Key events are explored between the cycles of the programs  *)
(* that test keys, for the keys those programs name.                      *)

KeySamples == {0, 5}

SetKey == \E index \in KeySamples, pressed \in BOOLEAN :
            /\ rom \in KeyRoms
            /\ at = "fetch"
            /\ keys[index] # pressed
            /\ keys' = [keys EXCEPT ![index] = pressed]
            /\ UNCHANGED <<rom, frame, ram, v, stack, sp, pc, i, dt, st, memory, at>>

---------------------------------------------------------------------------
(* CPU.UpdateTimers, called by the loop after every Execute *)

Countdown(t) == IF t > 0 THEN t - 1 ELSE t

UpdateTimers == /\ at = "timers"
                /\ dt' = Countdown(dt)
                /\ st' = Countdown(st)
                /\ at' = "fetch"
                /\ UNCHANGED <<rom, frame, ram, v, stack, sp, pc, i, keys, memory>>

---------------------------------------------------------------------------
(* Emulator.Run *)

Next == \/ DisplayInit
        \/ LoadRom
        \/ LoadFont
        \/ ReadPanic
        \/ Halt
        \/ BaseInstruction
        \/ Clear
        \/ Return
        \/ Jump
        \/ Call
        \/ SkipX
        \/ SkipNotX
        \/ SkipXY
        \/ LoadX
        \/ AddX
        \/ LoadXY
        \/ OR
        \/ AND
        \/ XOR
        \/ AddXY
        \/ SubXY
        \/ SHR
        \/ SubN
        \/ SHL
        \/ SkipNotXY
        \/ LoadI
        \/ JumpV0
        \/ RND
        \/ Draw
        \/ SkipKey
        \/ SkipNotKey
        \/ GetDelayTimer
        \/ WaitKey
        \/ SetDelayTimer
        \/ SetSoundTimer
        \/ AddI
        \/ LoadSprite
        \/ StoreBCD
        \/ WriteMemory
        \/ ReadMemory
        \/ SetKey
        \/ Update
        \/ UpdateTimers

Spec == Init /\ [][Next]_vars

\* A step of Emulator.Run: the steps before the loop and those of the loop,
\* which all move the position of Run
RunStep == Next /\ at' # at

\* The goroutine of Run keeps running: each pass of the loop sleeps for
\* 1200 microseconds and goes on
FairSpec == Spec /\ WF_vars(RunStep)

---------------------------------------------------------------------------
(* Properties of the fetch/execute cycle *)

\* The word whose high byte is data[pc] and whose low byte is data[pc + 1]
WordAtPC == ram[pc + 1] * 256 + ram[pc + 2]

\* A cycle: ReadInstruction returned an instruction and Execute ran to its end
Cycle == at = "fetch" /\ at' = "timers"

C2_ZeroWordHalts ==
  /\ [][(at = "fetch" /\ pc + 1 < RamSize /\ WordAtPC = 0 /\ keys' = keys /\ frame' = frame) =>
          (/\ at' = "halted"
           /\ UNCHANGED <<pc, v, i, stack, sp, dt, st, ram, memory>>)]_vars
  /\ [][at # "halted"]_vars

\* The loop was left on a zero word after at least one instruction was executed
C2_HaltedAfterRun == at = "halted" /\ pc # ProgramLocation /\ WordAtPC = 0

---------------------------------------------------------------------------
(* Properties of the call stack *)

\* A fetch returned the instruction 2nnn / 00EE
CallFetched == at = "fetch" /\ pc + 1 < RamSize /\ WordAtPC \div 4096 = 2
ReturnFetched == at = "fetch" /\ pc + 1 < RamSize /\ WordAtPC = \h00EE

\* C3: a CALL made with fewer than 16 calls outstanding succeeds (it ends
\* the cycle with pc = nnn and one call more outstanding), and a CALL made
\* with 16 outstanding fails leaving sp and every stack slot as they were.
\* sp counts the outstanding calls from the empty stack on.
C3_SixteenCalls ==
  [][(CallFetched /\ sp <= StackSize) =>
       IF sp < StackSize
       THEN at' = "timers" /\ sp' = sp + 1 /\ pc' = WordAtPC % 4096
       ELSE at' = "panic" /\ sp' = sp /\ stack' = stack]_vars

\* The sixteenth nested CALL of a program has stopped the emulator
C3_SixteenthCallPanics ==
  rom = NestRom(StackSize) /\ at = "panic" /\ sp = StackSize /\ pc = 574

\* C4: RET with no call outstanding (sp = 0) fails: sp stays 0, the stack is
\* unchanged and pc is not loaded from a stack slot; sp never leaves
\* 0..StackSize.
C4_ReturnOnEmptyStack ==
  /\ [][(ReturnFetched /\ sp = 0) =>
          (at' = "panic" /\ sp' = sp /\ stack' = stack /\ pc' # stack[0])]_vars
  /\ [](sp \in 0..StackSize)

\* RET on the empty stack has completed its cycle, with pc loaded from slot 0
\* and sp wrapped
C4_ReturnWrapped == rom = NestRom(0) /\ at = "timers" /\ pc = 0 /\ sp = 255

\* C5: CALL nnn fetched at a sets pc = nnn and the matching RET sets
\* pc = a + 2: the program with CALL 0x400 at 0x300 and RET at 0x400 comes
\* to rest at 0x302, and a program of k <= 16 nested CALLs followed by k RETs
\* comes to rest behind its first CALL, in both cases without failing and
\* with sp back at 0.
C5_CallReturnRoundTrip ==
  (rom = CallAt300Rom \/ \E k \in 1..StackSize : rom = NestRom(k)) =>
     /\ at # "panic"
     /\ at = "halted" => /\ sp = 0
                         /\ pc = IF rom = CallAt300Rom THEN \h302
                                 ELSE ProgramLocation + InstructionSize

\* CALL 0x400 at 0x300 followed by RET has come to rest at 0x302
C5_SingleRoundTrip == rom = CallAt300Rom /\ at = "halted" /\ pc = \h302 /\ sp = 0

---------------------------------------------------------------------------
(* Properties of the loaders *)

\* C6: loading a program of L bytes: if L <= RamSize - ProgramLocation then
\* afterwards data[0x200 + k] is byte k of the program for every k < L and
\* every other byte of data is unchanged; if L is larger the load fails and
\* no byte of data has been modified.
C6_LoadProgram ==
  [][at = "loadrom" =>
       IF Len(rom) <= RamSize - ProgramLocation
       THEN /\ at' # "panic"
            /\ \A a \in 0..(RamSize - 1) :
                 ram'[a + 1] = IF a >= ProgramLocation /\ a < ProgramLocation + Len(rom)
                               THEN rom[(a - ProgramLocation) + 1]
                               ELSE ram[a + 1]
       ELSE at' = "panic" /\ ram' = ram]_vars

\* A program one byte too large has been stored up to the end of data
C6_OversizeStored ==
  /\ Len(rom) = (RamSize - ProgramLocation) + 1
  /\ at = "panic"
  /\ ram[ProgramLocation + 2] = \hE0

---------------------------------------------------------------------------
(* Properties of the timers *)

\* C7: a tick takes one off dt if dt > 0 and leaves it 0 otherwise, does the
\* same for st, and changes none of v, pc, i, stack, sp, data and the display
\* memory; and dt and st are in 0..255 in every reachable state.
C7_TimerTick ==
  /\ [][(at = "timers" /\ at' = "fetch") =>
          (/\ dt' = IF dt > 0 THEN dt - 1 ELSE 0
           /\ st' = IF st > 0 THEN st - 1 ELSE 0
           /\ UNCHANGED <<v, pc, i, stack, sp, ram, memory>>)]_vars
  /\ [](dt \in 0..255 /\ st \in 0..255)

\* LD V2,255; ADD V2,1; LD DT,V2 has set the delay timer to 256
C7_TimerAbove255 == rom \in WideTimerRoms /\ dt = 256 /\ v[2] = 256

\* C8: an instruction cycle leaves dt and st unchanged unless it is Fx15 or
\* Fx18, and LD Vx,a; LD DT,Vx; LD Vy,DT (Fx15 followed immediately by Fx07)
\* leaves Vy = a.
C8_TimersDecoupled ==
  /\ [][(Cycle /\ ~(WordAtPC \div 4096 = 15 /\ WordAtPC % 256 \in {\h15, \h18})) =>
          UNCHANGED <<dt, st>>]_vars
  /\ [](\A p \in TimerRegs, a \in ByteSamples :
           (rom = TimerRom(p[1], p[2], a, \h15) /\ pc = ProgramLocation + 6) => v[p[2]] = a)

\* LD V0,5; LD DT,V0; LD V1,DT has read back 4
C8_ReadBackOneLess ==
  rom = TimerRom(0, 1, 5, \h15) /\ pc = ProgramLocation + 6 /\ v[0] = 5 /\ v[1] = 4

---------------------------------------------------------------------------
(* Properties of the keyboard instructions *)

\* The loop is about to read the instruction Fx0A
WaitKeyFetched == /\ at = "fetch"
                  /\ pc + 1 < RamSize
                  /\ WordAtPC \div 4096 = 15
                  /\ WordAtPC % 256 = \h0A

\* C9: a cycle at Fx0A while no key is pressed leaves pc at the instruction
\* and changes none of v, data, stack, sp and the display memory; a cycle at
\* Fx0A that moves pc on has set Vx to a pressed key.
C9_WaitKeySuspends ==
  /\ [][(WaitKeyFetched /\ \A k \in 0..(KeyboardSize - 1) : ~keys[k]) =>
          (pc' = pc /\ UNCHANGED <<v, ram, stack, sp, memory>>)]_vars
  /\ [][(WaitKeyFetched /\ pc' # pc) =>
          \E k \in 0..(KeyboardSize - 1) : keys[k] /\ v'[(WordAtPC \div 256) % 16] = k]_vars

\* The cycle at Fx0A has ended behind the instruction with no key pressed
C9_WaitKeyPassed ==
  /\ rom \in WaitKeyRoms
  /\ pc = ProgramLocation + 4
  /\ at = "timers"
  /\ \A k \in 0..(KeyboardSize - 1) : ~keys[k]

---------------------------------------------------------------------------
(* Properties of the arithmetic instructions *)

\* The registers with Vx = a and then Vy = b loaded, the others zero
Loaded(x, y, a, b) == [r \in 0..(RegSize - 1) |-> IF r = y THEN b ELSE IF r = x THEN a ELSE 0]

\* C10: a cycle at 8xy4 with x # 0xF that starts with Vx and Vy in 0..255
\* ends with Vx = (Vx + Vy) mod 256 and with VF = 1 if Vx + Vy > 255 and
\* VF = 0 otherwise; and the register update of 8xy4 does so for every pair
\* of bytes loaded into the registers of RegPairs (the table is evaluated in
\* one state, it does not depend on the state).
C10_AddWithCarry ==
  /\ [][LET x == (WordAtPC \div 256) % 16
            y == (WordAtPC \div 16) % 16
        IN  (/\ Cycle
             /\ WordAtPC \div 4096 = 8
             /\ WordAtPC % 16 = 4
             /\ x # 15
             /\ v[x] \in 0..255
             /\ v[y] \in 0..255) =>
               /\ v'[x] = (v[x] + v[y]) % 256
               /\ v'[15] = IF v[x] + v[y] > 255 THEN 1 ELSE 0]_vars
  /\ []((at = "init" /\ rom = EndToEndRom) =>
          \A n \in 1..Len(RegPairs), a \in 0..255, b \in 0..255 :
             LET x == RegPairs[n][1]
                 y == RegPairs[n][2]
                 before == Loaded(x, y, a, b)
                 after == AddXYRegs(before, x, y)
             IN  x # 15 =>
                   /\ after[x] = (before[x] + before[y]) % 256
                   /\ after[15] = IF before[x] + before[y] > 255 THEN 1 ELSE 0)

\* ADD V0,V1 has added 200 and 100: V0 = 44 with the carry in VF
C10_CarryOut ==
  /\ rom = ArithRom(200, 100)
  /\ pc = ProgramLocation + 30
  /\ at = "timers"
  /\ v[0] = 44
  /\ v[1] = 100
  /\ v[15] = 1

\* A cycle at the instruction 8xyN with the given N
ArithCycle(n) == Cycle /\ WordAtPC \div 4096 = 8 /\ WordAtPC % 16 = n

\* C11: a cycle at 8xy5 with x # 0xF that starts with Vx and Vy in 0..255
\* ends with Vx = (Vx - Vy) mod 256 and with VF = 1 if Vx >= Vy and VF = 0
\* otherwise.
C11_SubNoBorrow ==
  [][LET x == (WordAtPC \div 256) % 16
         y == (WordAtPC \div 16) % 16
     IN  (ArithCycle(5) /\ x # 15 /\ v[x] \in 0..255 /\ v[y] \in 0..255) =>
            /\ v'[x] = (v[x] - v[y]) % 256
            /\ v'[15] = IF v[x] >= v[y] THEN 1 ELSE 0]_vars

\* SUB V0,V1 has subtracted 5 from 5 and left VF = 0
C11_EqualOperandsNoFlag ==
  /\ rom = ArithRom(5, 5)
  /\ pc = ProgramLocation + 36
  /\ at = "timers"
  /\ v[0] = 0
  /\ v[1] = 5
  /\ v[15] = 0

\* C12: a cycle at 8xy7 with x # 0xF that starts with Vx and Vy in 0..255
\* ends with Vx = (Vy - Vx) mod 256 and with VF = 1 if Vy >= Vx and VF = 0
\* otherwise.
C12_SubnNoBorrow ==
  [][LET x == (WordAtPC \div 256) % 16
         y == (WordAtPC \div 16) % 16
     IN  (ArithCycle(7) /\ x # 15 /\ v[x] \in 0..255 /\ v[y] \in 0..255) =>
            /\ v'[x] = (v[y] - v[x]) % 256
            /\ v'[15] = IF v[y] >= v[x] THEN 1 ELSE 0]_vars

\* SUBN V0,V1 has subtracted 5 from 3 and left the 16-bit difference in V0
C12_WideDifference ==
  /\ rom = ArithRom(5, 3)
  /\ pc = ProgramLocation + 48
  /\ at = "timers"
  /\ v[0] = 65534
  /\ v[1] = 3
  /\ v[15] = 0

\* C13: a cycle at 8xy6 with x # 0xF that starts with Vx in 0..255 ends with
\* VF = the lowest bit Vx had and Vx = Vx div 2; and the register update of
\* 8xy6 does so for every byte in every register but VF (the table is
\* evaluated in one state, it does not depend on the state).
C13_ShiftRight ==
  /\ [][LET x == (WordAtPC \div 256) % 16
        IN  (ArithCycle(6) /\ x # 15 /\ v[x] \in 0..255) =>
               /\ v'[x] = v[x] \div 2
               /\ v'[15] = v[x] % 2]_vars
  /\ []((at = "init" /\ rom = EndToEndRom) =>
          \A x \in 0..(RegSize - 2), a \in 0..255 :
             LET after == SHRRegs(Loaded(x, x, a, a), x)
             IN  after[x] = a \div 2 /\ after[15] = a % 2)

\* SHR V0 has shifted 0b00000011: V0 = 0b00000001 with VF = 1
C13_ShiftedThree ==
  /\ rom = ArithRom(3, 5)
  /\ pc = ProgramLocation + 42
  /\ at = "timers"
  /\ v[0] = 1
  /\ v[15] = 1

\* C14: a cycle at 8xyE with x # 0xF that starts with Vx in 0..255 ends with
\* VF = bit 7 of the Vx it started with and Vx = (Vx * 2) mod 256.
C14_ShiftLeft ==
  [][LET x == (WordAtPC \div 256) % 16
     IN  (ArithCycle(14) /\ x # 15 /\ v[x] \in 0..255) =>
            /\ v'[x] = (v[x] * 2) % 256
            /\ v'[15] = (v[x] \div 128) % 2]_vars

\* SHL V0 has shifted 0b10000001: V0 = 258 with VF = 0
C14_ShiftedHighBit ==
  /\ rom = ArithRom(129, 1)
  /\ pc = ProgramLocation + 54
  /\ at = "timers"
  /\ v[0] = 258
  /\ v[15] = 0

---------------------------------------------------------------------------
(* Properties of Dxyn *)

\* A cycle at the instruction Dxyn
DrawCycle == Cycle /\ WordAtPC \div 4096 = 13

\* The cells of a display memory that are set
SetCells(cells) == {c \in 0..(DisplayWidth * DisplayHeight - 1) : cells[c + 1] = 1}

\* The cells a Dxyn at pc is to toggle: column (Vx + c) mod 64 of row
\* (Vy + r) mod 32 for every set bit c (0 the most significant) of row r of
\* the sprite at data[i]
SpriteCells ==
  LET x == v[(WordAtPC \div 256) % 16]
      y == v[(WordAtPC \div 16) % 16]
      n == WordAtPC % 16
  IN  {((x + c) % 64) + ((y + r) % 32) * 64 :
         <<r, c>> \in {rc \in (0..(n - 1)) \X (0..7) :
                         (ram[i + rc[1] + 1] \div (2 ^ (7 - rc[2]))) % 2 = 1}}

\* C15: the same Dxyn executed again behind a cycle at Dxyn, with the same i,
\* Vx, Vy and sprite, gives back the display memory the cycle started with;
\* and in a program that draws a sprite twice on the cleared display the
\* first draw ends with VF = 0 and the second with the display cleared again
\* and VF = 1 if the sprite has a set bit.
C15_DrawTwiceRestores ==
  /\ [][DrawCycle =>
          DrawFrom(memory', 0, ram, i, v[(WordAtPC \div 256) % 16],
                   v[(WordAtPC \div 16) % 16], WordAtPC % 16, 0).memory = memory]_vars
  /\ [](rom \in DrawRoms =>
          /\ (pc = \h20A => v[15] = 0)
          /\ (pc = \h20C => /\ memory = ClearedMemory
                            /\ v[15] = IF ram[\h208 + 2] % 16 > 0 THEN 1 ELSE 0))

\* The second of two draws of the 0xFF row has cleared the display, VF = 1
C15_SecondDrawClears ==
  /\ rom = DrawRom(60, 0, 1)
  /\ pc = \h20C
  /\ at = "timers"
  /\ memory = ClearedMemory
  /\ v[15] = 1

\* C16: a cycle at Dxyn that starts with Vx and Vy in 0..255 toggles exactly
\* the cells of SpriteCells and leaves every other cell as it was; the row
\* 0xFF drawn at x = 60, y = 0 on the cleared display sets exactly the
\* columns 60, 61, 62, 63, 0, 1, 2, 3 of row 0.
C16_DrawWraps ==
  /\ [][(/\ DrawCycle
         /\ v[(WordAtPC \div 256) % 16] \in 0..255
         /\ v[(WordAtPC \div 16) % 16] \in 0..255) =>
          LET cells == SpriteCells
          IN  \A c \in 0..(DisplayWidth * DisplayHeight - 1) :
                 memory'[c + 1] = IF c \in cells THEN 1 - memory[c + 1] ELSE memory[c + 1]]_vars
  /\ []((rom = DrawRom(60, 0, 1) /\ pc = \h20A) =>
          SetCells(memory) = {60, 61, 62, 63, 0, 1, 2, 3})

\* The row 0xFF has been drawn at x = 60 and has wrapped to column 0
C16_WrappedRow ==
  /\ rom = DrawRom(60, 0, 1)
  /\ pc = \h20A
  /\ at = "timers"
  /\ memory[61] = 1
  /\ memory[1] = 1
  /\ memory[65] = 0

\* C17: a cycle at Dxyn ends with VF = 1 if a cell that was set before it is
\* unset after it, and with VF = 0 otherwise, whatever VF was before.
C17_CollisionFlag ==
  [][DrawCycle =>
       v'[15] = IF \E c \in 0..(DisplayWidth * DisplayHeight - 1) :
                      memory[c + 1] = 1 /\ memory'[c + 1] = 0
                THEN 1 ELSE 0]_vars

\* A glyph drawn over a sprite has unset a cell and left others set, VF = 1
C17_PartialCollision ==
  /\ rom = DrawRom(0, 0, 4)
  /\ pc = \h212
  /\ at = "timers"
  /\ v[15] = 1
  /\ SetCells(memory) # {}

---------------------------------------------------------------------------
(* Properties of the decoder *)

\* The instruction whose full pattern a word matches, by the patterns 00E0,
\* 00EE, 1nnn, 2nnn, 3xkk, 4xkk, 5xy0, 6xkk, 7xkk, 8xy0..8xy7, 8xyE, 9xy0,
\* Annn, Bnnn, Cxkk, Dxyn, Ex9E, ExA1, Fx07, Fx0A, Fx15, Fx18, Fx1E, Fx29,
\* Fx33, Fx55, Fx65; "BaseInstruction" for a word that matches none
PatternOf(w) ==
  LET top == w \div 4096
      n == w % 16
      nn == w % 256
      only(cond, name) == IF cond THEN name ELSE "BaseInstruction"
  IN  CASE top = 0 -> (IF w = \h00E0 THEN "Clear" ELSE only(w = \h00EE, "Return"))
        [] top = 1 -> "Jump"
        [] top = 2 -> "Call"
        [] top = 3 -> "SkipX"
        [] top = 4 -> "SkipNotX"
        [] top = 5 -> only(n = 0, "SkipXY")
        [] top = 6 -> "LoadX"
        [] top = 7 -> "AddX"
        [] top = 8 -> only(n \in 0..7 \cup {14},
                           <<"LoadXY", "OR", "AND", "XOR", "AddXY", "SubXY", "SHR", "SubN",
                             "", "", "", "", "", "", "SHL">>[n + 1])
        [] top = 9 -> only(n = 0, "SkipNotXY")
        [] top = 10 -> "LoadI"
        [] top = 11 -> "JumpV0"
        [] top = 12 -> "RND"
        [] top = 13 -> "Draw"
        [] top = 14 -> (IF nn = \h9E THEN "SkipKey" ELSE only(nn = \hA1, "SkipNotKey"))
        [] top = 15 ->
             CASE nn = \h07 -> "GetDelayTimer" [] nn = \h0A -> "WaitKey"
               [] nn = \h15 -> "SetDelayTimer" [] nn = \h18 -> "SetSoundTimer"
               [] nn = \h1E -> "AddI" [] nn = \h29 -> "LoadSprite"
               [] nn = \h33 -> "StoreBCD" [] nn = \h55 -> "WriteMemory"
               [] nn = \h65 -> "ReadMemory" [] OTHER -> "BaseInstruction"

\* C18: a cycle at a nonzero word that matches no pattern of the instruction
\* set runs to its end with pc advanced by 2 and with v, i, stack, sp, dt,
\* st, data, keys and the display memory unchanged.
C18_UnknownIsNoOp ==
  [][(/\ at = "fetch"
      /\ pc + 1 < RamSize
      /\ WordAtPC # 0
      /\ PatternOf(WordAtPC) = "BaseInstruction") =>
        (/\ at' = "timers"
         /\ pc' = pc + 2
         /\ UNCHANGED <<v, i, stack, sp, dt, st, ram, keys, memory>>)]_vars

\* The cycle at 5011 with V0 = V1 has moved pc on by 4
C18_UnknownSkipped ==
  rom = UnknownRom(5, 5) /\ pc = \h210 /\ at = "timers" /\ v[2] = 0

\* C19: for every nonzero 16-bit word the switch of ReadInstruction selects
\* the instruction whose full pattern the word matches, and the base
\* instruction for a word that matches none (the table is evaluated in one
\* state, it does not depend on the state).
C19_DecoderTable ==
  (at = "init" /\ rom = EndToEndRom) =>
     \A w \in 1..(Uint16 - 1) : Decode(w) = PatternOf(w)

\* The program has run to its end with 9012 executed as a skip: V3 not loaded
C19_PatternIgnored ==
  rom = UnknownRom(3, 5) /\ at = "halted" /\ pc = \h214 /\ v[2] = 7 /\ v[3] = 0

\* The instructions whose Execute indexes the stack or data
IndexesStackOrData == {"Call", "Return", "Draw", "StoreBCD", "WriteMemory", "ReadMemory"}

\* C20: for every 16-bit word the register indices x and y, the flag index
\* 0xF, the key index x and the indices 0..x of Fx55 and Fx65 are indices of
\* v and of keys (the table is evaluated in one state, it does not depend on
\* the state); v has RegSize cells and keys KeyboardSize in every state; and
\* a cycle that stops the emulator is at an instruction that indexes the
\* stack or data, never at one that indexes only registers and keys.
C20_OperandIndicesInBounds ==
  /\ []((at = "init" /\ rom = EndToEndRom) =>
          \A w \in 0..(Uint16 - 1) :
             /\ OpX(w) \in DOMAIN v
             /\ OpY(w) \in DOMAIN v
             /\ 15 \in DOMAIN v
             /\ OpX(w) \in DOMAIN keys
             /\ 0..OpX(w) \subseteq DOMAIN v)
  /\ [](DOMAIN v = 0..(RegSize - 1) /\ DOMAIN keys = 0..(KeyboardSize - 1))
  /\ [][(at = "fetch" /\ pc + 1 < RamSize /\ at' = "panic") =>
          PatternOf(WordAtPC) \in IndexesStackOrData]_vars

\* SKP VF, SKNP VF and ADD VF,VF have run with index 15 and the program has
\* come to its end
C20_LargestIndexUsed ==
  rom = MaxIndexRom /\ at = "halted" /\ pc = \h208 /\ v[15] = 0

---------------------------------------------------------------------------
(* Properties of the register file *)

\* C21: in every reachable state each of the sixteen registers V0..VF holds
\* a value in 0..255.
C21_RegistersAreBytes == \A r \in 0..(RegSize - 1) : v[r] \in 0..255

\* LD V2,255; ADD V2,1 has just executed and left 256 in V2
C21_RegisterHolds256 ==
  /\ rom \in WideTimerRoms
  /\ pc = ProgramLocation + 2 * InstructionSize
  /\ at = "timers"
  /\ v[2] = 256

\* A cycle that executes the word 7xkk
AddXCycle == Cycle /\ WordAtPC \div 4096 = 7

\* C22: 7xkk sets Vx to (Vx + kk) mod 256 and leaves every other register
\* unchanged, VF included when x is not 0xF.
C22_AddImmediate ==
  [][AddXCycle =>
       LET x == (WordAtPC \div 256) % 16
           kk == WordAtPC % 256
       IN  /\ v'[x] = (v[x] + kk) % 256
           /\ \A r \in 0..(RegSize - 1) : r # x => v'[r] = v[r]]_vars

\* LD V2,255; ADD V2,3 has left 258 in V2 and VF as it was
C22_SumNotReduced ==
  /\ rom \in WideTimerRoms
  /\ pc = ProgramLocation + 2 * InstructionSize
  /\ at = "timers"
  /\ v[2] = 258
  /\ v[15] = 0

---------------------------------------------------------------------------
(* Properties of the program counter and the index register *)

\* C23: whenever the loop is about to read an instruction, pc is even and
\* lies in 0x200..0xFFF, so that both bytes of the word, at pc and pc + 1,
\* are inside the 4096 bytes of data.
C23_FetchInsideProgram ==
  at = "fetch" => /\ pc % 2 = 0
                  /\ pc \in ProgramLocation..(RamSize - 1)
                  /\ pc + 1 \in 0..(RamSize - 1)

\* JP 0xFFF: the read of the next word touched data[0x1000] and panicked
C23_FetchPastEnd ==
  /\ rom = WordBytes(<<\h1FFF, \h0000, \h0000>>)
  /\ at = "panic"
  /\ pc = RamSize - 1

\* ReadInstruction is about to return Dxyn, Fx33, Fx55 or Fx65
IndexedFetch ==
  /\ at = "fetch"
  /\ pc + 1 < RamSize
  /\ \/ WordAtPC \div 4096 = 13
     \/ WordAtPC \div 4096 = 15 /\ WordAtPC % 256 \in {\h33, \h55, \h65}

\* C24: Dxyn, Fx33, Fx55 and Fx65 reduce every address they form from I to
\* 12 bits: whatever I, n and x are, the instruction runs to its end, Fx55
\* leaves V0..Vx at data[(I + k) mod 4096] and Fx65 loads V0..Vx from there.
C24_IndexedAccessMasked ==
  [][IndexedFetch =>
       LET x == (WordAtPC \div 256) % 16
           low == WordAtPC % 256
       IN  /\ at' = "timers"
           /\ (WordAtPC \div 4096 = 15 /\ low = \h55) =>
                \A k \in 0..x : ram'[((i + k) % RamSize) + 1] = v[k] % 256
           /\ (WordAtPC \div 4096 = 15 /\ low = \h65) =>
                \A k \in 0..x : v'[k] = ram[((i + k) % RamSize) + 1]]_vars

\* LD I,0xFFE; LD B,V0: the third digit was bound for data[0x1000] and the
\* store panicked
C24_StorePastEnd ==
  /\ rom = IndexRom(\hF033)
  /\ at = "panic"
  /\ i = RamSize - 2
  /\ pc = ProgramLocation + 4 * InstructionSize

\* A cycle that executes the word Fx1E
AddICycle == Cycle /\ WordAtPC \div 4096 = 15 /\ WordAtPC % 256 = \h1E

\* C25: Fx1E sets I to (I + Vx) mod 4096, and I is in 0..0xFFF in every
\* reachable state.
C25_AddIndexWraps ==
  /\ [][AddICycle => i' = (i + v[(WordAtPC \div 256) % 16]) % 4096]_vars
  /\ [](i \in 0..(RamSize - 1))

\* LD V0,7; LD I,0xFFE; ADD I,V0 has left 0x1005 in I
C25_IndexPastEnd ==
  /\ rom = IndexRom(\hF155)
  /\ at = "timers"
  /\ v[0] = 7
  /\ i = RamSize + 5

---------------------------------------------------------------------------
(* Properties of the keypad instructions *)

\* A cycle that executes the word Ex9E or ExA1
KeyCycle == Cycle /\ WordAtPC \div 4096 = 14 /\ WordAtPC % 256 \in {\h9E, \hA1}

\* C26: Ex9E leaves pc at the following instruction plus 2 exactly when the
\* key whose index is the value held in Vx is pressed, and ExA1 exactly when
\* that key is not pressed; otherwise pc is at the following instruction.
C26_KeySelectedByValue ==
  [][(KeyCycle /\ v[(WordAtPC \div 256) % 16] < KeyboardSize) =>
       LET key == v[(WordAtPC \div 256) % 16]
           skips == IF WordAtPC % 256 = \h9E THEN keys[key] ELSE ~keys[key]
       IN  pc' = IF skips THEN pc + 4 ELSE pc + 2]_vars

\* V0 = 5 and key 5 is down, key 0 is up: SKP V0 did not skip
C26_PressedKeyNotSeen ==
  /\ rom = KeyRom(0, 5)
  /\ v[0] = 5
  /\ keys[5]
  /\ ~keys[0]
  /\ at = "timers"
  /\ pc = ProgramLocation + 2 * InstructionSize

---------------------------------------------------------------------------
(* Properties of the display memory as a whole *)

\* A cycle that executes the word 00E0
ClearCycle == Cycle /\ WordAtPC = \h00E0

\* C27: the display memory changes only in a step that executes Dxyn or
\* 00E0 (no other instruction, no timer tick and no key event writes it);
\* every cell is 0 or 1 in every reachable state; and 00E0 sets all 64 x 32
\* cells to 0 and leaves the registers, I, the stack, sp, the timers and
\* data unchanged.
C27_FramebufferFrame ==
  /\ [][memory' # memory =>
          (/\ at = "fetch"
           /\ pc + 1 < RamSize
           /\ WordAtPC \div 4096 = 13 \/ WordAtPC = \h00E0)]_vars
  /\ [](\A c \in 1..(DisplayWidth * DisplayHeight) : memory[c] \in {0, 1})
  /\ [][ClearCycle =>
          (/\ \A c \in 1..(DisplayWidth * DisplayHeight) : memory'[c] = 0
           /\ UNCHANGED <<v, i, stack, sp, dt, st, ram>>)]_vars

\* CLS has wiped the glyph drawn in the subroutine; V0, V3, I, sp and the
\* timers are as they were
C27_ClearedAfterDraw ==
  /\ rom = ClearRom
  /\ at = "timers"
  /\ pc = ProgramLocation + 10 * InstructionSize
  /\ \A c \in 1..(DisplayWidth * DisplayHeight) : memory[c] = 0
  /\ v[0] = 5 /\ v[3] = 9 /\ i = 10 /\ sp = 1 /\ dt > 0 /\ st > 0

---------------------------------------------------------------------------
(* Properties of the instructions that use the index register *)

\* A cycle that executes the word Fx29
LoadSpriteCycle == Cycle /\ WordAtPC \div 4096 = 15 /\ WordAtPC % 256 = \h29

\* C28: Fx29 sets I to 5 * (Vx mod 16), the address of the glyph of the low
\* nibble of Vx in the font loaded at address 0, for every Vx in 0..255;
\* that address is inside the 80 bytes of the font.
C28_GlyphOfLowNibble ==
  [][(LoadSpriteCycle /\ v[(WordAtPC \div 256) % 16] \in 0..255) =>
       (/\ i' = 5 * (v[(WordAtPC \div 256) % 16] % 16)
        /\ i' \in 0..79)]_vars

\* LD V0,16; LD F,V0 has left I at 80, the first byte after the font
C28_GlyphPastFont ==
  /\ rom = SpriteRom(16)
  /\ at = "timers"
  /\ pc = ProgramLocation + 2 * InstructionSize
  /\ v[0] = 16
  /\ i = 80

\* ReadInstruction is about to return Fx33
StoreBCDFetch ==
  /\ at = "fetch"
  /\ pc + 1 < RamSize
  /\ WordAtPC \div 4096 = 15
  /\ WordAtPC % 256 = \h33

\* C29: Fx33 with Vx in 0..255 and I, I + 1, I + 2 inside data runs to its
\* end and leaves data[I] = Vx div 100, data[I+1] = (Vx div 10) mod 10 and
\* data[I+2] = Vx mod 10, so that 100 * data[I] + 10 * data[I+1] + data[I+2]
\* = Vx; every other byte of data, every register and I are unchanged.  The
\* digits the instruction computes satisfy this for each Vx in 0..255.
C29_DecimalDigits ==
  /\ [][(StoreBCDFetch /\ at' # at /\ v[(WordAtPC \div 256) % 16] \in 0..255
           /\ i + 2 < RamSize) =>
          LET vx == v[(WordAtPC \div 256) % 16]
          IN  /\ at' = "timers"
              /\ ram'[i + 1] = vx \div 100
              /\ ram'[i + 2] = (vx \div 10) % 10
              /\ ram'[i + 3] = vx % 10
              /\ 100 * ram'[i + 1] + 10 * ram'[i + 2] + ram'[i + 3] = vx
              /\ \A a \in 1..RamSize : a \notin {i + 1, i + 2, i + 3} => ram'[a] = ram[a]
              /\ UNCHANGED <<v, i>>]_vars
  /\ []((at = "init" /\ rom = EndToEndRom) =>
          \A vx \in 0..255 :
             /\ BCD(vx)[0] = vx \div 100
             /\ BCD(vx)[1] = (vx \div 10) % 10
             /\ BCD(vx)[2] = vx % 10
             /\ 100 * BCD(vx)[0] + 10 * BCD(vx)[1] + BCD(vx)[2] = vx)

\* LD V4,123; LD I,0x300; LD B,V4 has stored 1, 2, 3 at 0x300..0x302
C29_Digits123 ==
  /\ rom = BcdRom(123)
  /\ at = "timers"
  /\ pc = ProgramLocation + 3 * InstructionSize
  /\ v[4] = 123
  /\ i = 768
  /\ <<ram[769], ram[770], ram[771]>> = <<1, 2, 3>>

\* ReadInstruction is about to return Fx55 or Fx65 (low is 0x55 or 0x65)
BlockFetch(low) ==
  /\ at = "fetch"
  /\ pc + 1 < RamSize
  /\ WordAtPC \div 4096 = 15
  /\ WordAtPC % 256 = low

\* C30: with I..I+x inside data, Fx55 copies V0..Vx (byte values) to
\* data[I..I+x] and changes no other byte, no register and not I; Fx65 copies
\* data[I..I+x] to V0..Vx and changes no register above Vx, no byte of data
\* and not I.  Hence in a program that stores V0..Vx, overwrites V0..V3 and
\* loads V0..Vx from the same I, V0..Vx end with the values stored and the
\* registers above Vx with the values written in between.
C30_StoreLoadRoundTrip ==
  /\ [][(BlockFetch(\h55) /\ at' # at /\ i + ((WordAtPC \div 256) % 16) < RamSize
           /\ \A k \in 0..((WordAtPC \div 256) % 16) : v[k] \in 0..255) =>
          LET x == (WordAtPC \div 256) % 16
          IN  /\ at' = "timers"
              /\ \A k \in 0..x : ram'[i + k + 1] = v[k]
              /\ \A a \in 1..RamSize : a \notin (i + 1)..(i + x + 1) => ram'[a] = ram[a]
              /\ UNCHANGED <<v, i>>]_vars
  /\ [][(BlockFetch(\h65) /\ at' # at /\ i + ((WordAtPC \div 256) % 16) < RamSize) =>
          LET x == (WordAtPC \div 256) % 16
          IN  /\ at' = "timers"
              /\ \A k \in 0..x : v'[k] = ram[i + k + 1]
              /\ \A r \in (x + 1)..(RegSize - 1) : v'[r] = v[r]
              /\ UNCHANGED <<ram, i>>]_vars
  /\ [](\A x \in RoundTripXs :
          (rom = RoundTripRom(x) /\ pc = ProgramLocation + 11 * InstructionSize) =>
             \A r \in 0..3 : v[r] = IF r <= x THEN RoundTripValues[r + 1]
                                     ELSE RoundTripClobber[r + 1])

\* V0..V2 were stored, V0..V3 overwritten and V0..V2 loaded back: V0..V2 hold
\* the stored values and V3 the value written in between
C30_RestoredThree ==
  /\ rom = RoundTripRom(2)
  /\ at = "timers"
  /\ pc = ProgramLocation + 11 * InstructionSize
  /\ i = 768
  /\ <<v[0], v[1], v[2], v[3]>> = <<7, 200, 255, \h44>>
  /\ <<ram[769], ram[770], ram[771], ram[772]>> = <<7, 200, 255, 0>>

---------------------------------------------------------------------------
(* Properties of the random instruction *)

\* ReadInstruction is about to return Cxkk
RNDFetch == at = "fetch" /\ pc + 1 < RamSize /\ WordAtPC \div 4096 = 12

\* C31: Cxkk leaves in Vx a value with no bit set outside kk, and for every
\* byte r in 0..255 the value r AND kk is a possible result of the cycle (so
\* 255 is a possible result of Cx with kk = 0xFF).
C31_RandomByteMasked ==
  /\ [][(RNDFetch /\ at' # at) =>
          LET x == (WordAtPC \div 256) % 16
          IN  BitAnd(v'[x], WordAtPC % 256, 16) = v'[x]]_vars
  /\ [](RNDFetch =>
          \A r \in 0..255 :
             ENABLED (/\ Next
                      /\ at' = "timers"
                      /\ v'[(WordAtPC \div 256) % 16] = BitAnd(r, WordAtPC % 256, 8)))

\* RND V3,0xFF has produced 254, the largest value it can
C31_LargestRandom ==
  /\ rom = RndRom(\hFF)
  /\ at = "timers"
  /\ pc = ProgramLocation + InstructionSize
  /\ v[3] = 254

---------------------------------------------------------------------------
(* Properties of the state the loop starts in *)

\* C32: in the state in which the loop reads its first instruction (the one
\* LoadFont leaves), every register, I, sp, every stack slot, dt and st are
\* 0, pc is 0x200, every cell of the display memory is 0, data[0..79] holds
\* the 80 bytes of the font and data[0x200 + k] holds byte k of the program:
\* neither load has overwritten a byte of the other.
C32_InitialState ==
  [][(at = "loadfont" /\ at' = "fetch") =>
       (/\ \A r \in 0..(RegSize - 1) : v'[r] = 0
        /\ \A s \in 0..(StackSize - 1) : stack'[s] = 0
        /\ i' = 0 /\ sp' = 0 /\ dt' = 0 /\ st' = 0
        /\ pc' = 512
        /\ \A c \in 1..(DisplayWidth * DisplayHeight) : memory'[c] = 0
        /\ \A k \in 1..80 : ram'[k] = Font[k]
        /\ \A k \in 1..Len(rom) : ram'[512 + k] = rom[k])]_vars

\* The loop is about to read the first word of the largest program that
\* fits: the font is at 0 and the last byte of the program at 0xFFF
C32_FirstFetchOfLargest ==
  /\ Len(rom) = RamSize - ProgramLocation
  /\ at = "fetch"
  /\ pc = ProgramLocation
  /\ sp = 0
  /\ ram[1] = Font[1] /\ ram[80] = Font[80]
  /\ ram[ProgramLocation + 2] = rom[2] /\ ram[RamSize] = rom[Len(rom)]

---------------------------------------------------------------------------
(* Properties of the flag when VF is an operand *)

\* C33: a cycle at 8xF5 with x # 0xF that starts with Vx and VF in 0..255
\* ends with VF = 1 iff the Vx it started with is at least the VF it started
\* with, and a cycle at 8xF7 with VF = 1 iff the VF it started with is at
\* least the Vx it started with.  Stated for operands that differ, where "at
\* least" and "greater than" agree.
C33_FlagFromOldOperands ==
  [][LET x == (WordAtPC \div 256) % 16
         y == (WordAtPC \div 16) % 16
     IN  (/\ Cycle
          /\ WordAtPC \div 4096 = 8
          /\ WordAtPC % 16 \in {5, 7}
          /\ x # 15 /\ y = 15
          /\ v[x] \in 0..255 /\ v[15] \in 0..255 /\ v[x] # v[15]) =>
            v'[15] = IF WordAtPC % 16 = 5
                     THEN (IF v[x] >= v[15] THEN 1 ELSE 0)
                     ELSE (IF v[15] >= v[x] THEN 1 ELSE 0)]_vars

\* LD V3,3; LD VF,5; SUB V3,VF has ended with VF = 1 although 3 < 5
C33_FlagFromClearedVF ==
  /\ rom = ArithRom(3, 5)
  /\ at = "timers"
  /\ ram[pc - 1] = \h83 /\ ram[pc] = \hF5
  /\ v[3] = 65534
  /\ v[15] = 1

---------------------------------------------------------------------------
(* Properties of the renderer *)

\* C34: every pass of the rendering goroutine reads the display memory as it
\* is between two instruction cycles: the cells a pass has read are those of
\* the state before or of the state after the step in which it reads, never
\* those of a Dxyn or 00E0 that is partway through.
C34_RenderBetweenCycles ==
  [][frame' # frame => frame' \in {memory, memory'}]_vars

\* A pass has read the first row of the three-row sprite that DRW V0,V1,3
\* has drawn at (8, 4): the frame shows a sprite that was never on display
C34_TornFrame ==
  /\ rom = RenderRom
  /\ at = "timers"
  /\ pc = ProgramLocation + 4 * InstructionSize
  /\ frame[4 * DisplayWidth + 9] = 1
  /\ frame[5 * DisplayWidth + 9] = 0
  /\ memory[4 * DisplayWidth + 9] = 1
  /\ memory[5 * DisplayWidth + 9] = 1

---------------------------------------------------------------------------
(* Termination of straight-line programs *)

\* The word at 0x200 + 2 * m in data
ProgramWord(m) == ram[ProgramLocation + 2 * m + 1] * 256 + ram[ProgramLocation + 2 * m + 2]

\* The number of non-zero words data holds from 0x200 on before a zero word
ProgramLength ==
  CHOOSE k \in 0..((RamSize - ProgramLocation) \div 2 - 1) :
     /\ ProgramWord(k) = 0
     /\ \A m \in 0..(k - 1) : ProgramWord(m) # 0

\* Not a jump, call, return, skip, Fx0A or an instruction that writes data
StraightLineWord(w) ==
  /\ w \div 4096 \notin {1, 2, 11, 3, 4, 5, 9, 14}
  /\ w # \h00EE
  /\ ~(w \div 4096 = 15 /\ w % 256 \in {\h0A, \h33, \h55})

\* data from 0x200 holds straight-line words followed by a zero word
StraightLine ==
  /\ \E k \in 0..((RamSize - ProgramLocation) \div 2 - 1) : ProgramWord(k) = 0
  /\ \A m \in 0..(ProgramLength - 1) : StraightLineWord(ProgramWord(m))

\* C35: when data from 0x200 holds k non-zero straight-line words followed by
\* a zero word, every cycle of the loop advances pc by 2 and runs to its end,
\* the loop is eventually left on the zero word, and it is left with
\* pc = 0x200 + 2k.
C35_StraightLineHalts ==
  /\ [][(StraightLine /\ at = "fetch" /\ at' # at) =>
          (/\ at' \in {"timers", "halted"}
           /\ at' = "timers" => pc' = pc + 2)]_vars
  /\ []((StraightLine /\ at = "halted") => pc = ProgramLocation + 2 * ProgramLength)
  /\ ((StraightLine /\ at = "fetch") ~> at = "halted")

\* LD I,0xFFE; DRW V0,V0,3: the loop has stopped in the panic of the read of
\* data[0x1000], on a program of two straight-line words
C35_StoppedByPanic ==
  /\ rom = WordBytes(<<\hAFFE, \hD013, \h0000>>)
  /\ StraightLine
  /\ ProgramLength = 2
  /\ at = "panic"
  /\ pc = ProgramLocation + 2 * InstructionSize

====
